---- MODULE Spec2Model ----
(***************************************************************************)
(* SWAPI People ETL flow (flows/swapi_people_etl.py).                      *)
(*                                                                         *)
(* One flow run is swapi_people_etl_flow(): it draws a batch id, calls the *)
(* three tasks extract_people, transform_people and publish_to_kafka in    *)
(* turn, writes a summary artifact and returns a result; any exception in  *)
(* the try block is handed to handle_fallback and re-raised.  Every task   *)
(* is run by the task runner under the policy of its @task decorator: a    *)
(* failed attempt is retried while retries are left (retries = N allows N  *)
(* re-runs after the first attempt), and each attempt starts the function  *)
(* body afresh.  A timeout of an attempt is a failure of that attempt.     *)
(*                                                                         *)
(* State is kept per run, so that several runs can be interleaved.         *)
(***************************************************************************)
EXTENDS Integers, Sequences, FiniteSets, TLC

\* ---------------------------------------------------------------- bounds
\* Number of page URLs the upstream server knows (URL 1 is the base URL).
MaxPages == 2

\* ------------------------------------------------------------- constants
\* @task(retries=...) of the three stages.
ExtractRetries == 3
TransformRetries == 2
PublishRetries == 5

Runs == {1, 2}
BatchIds == {"b1", "b2"}
Null == 0
NoBatch == "none"
NoError == "none"
BaseUrl == 1
Urls == 1..MaxPages
Records == 1..MaxPages
Stages == {"extract", "transform", "publish"}
KAFKA_TOPIC == "swapi.people.v1"

NoStats == [total |-> -1, published |-> -1, failed |-> -1, topic |-> "none"]
NoResult == [batch_id |-> NoBatch, status |-> "none", people_fetched |-> -1,
             messages_published |-> -1, messages_failed |-> -1]
NoArgs == [error |-> NoError, batch_id |-> NoBatch, stage |-> "none"]

VARIABLES
    pages,          \* the upstream resource: URL -> [results, next]
    topic,          \* the broker's log: messages acknowledged so far
    active,         \* the runs that are scheduled
    pc,             \* orchestrator state of each run
    batch_id,       \* swapi_people_etl_flow: batch_id
    entered,        \* how often the orchestrator called each stage
    attempts,       \* how many attempts the task runner started per stage
    epc,            \* extract_people: "idle" or "loop"
    url,            \* extract_people: url
    all_people,     \* extract_people: all_people
    requests,       \* URLs requested by the current/last extraction attempt
    raw_people,     \* flow: raw_people
    transformed_messages,   \* flow: transformed_messages
    ppc,            \* publish_to_kafka: position in the body
    idx,            \* publish_to_kafka: index of the message of the for loop
    published,      \* publish_to_kafka: published
    failed,         \* publish_to_kafka: failed
    pending,        \* publish_to_kafka: exception in flight to the finally
    sent,           \* producer.send calls per message in the current call
    flushCount,     \* producer.flush calls in the current call
    closeCount,     \* producer.close calls in the current call
    path,           \* exit path taken by the current/last publish call
    acked,          \* messages (by index) the broker acknowledged in the run
    reacked,        \* messages acknowledged again after an earlier acknowledgment
    inflight,       \* the sends whose acknowledgment the call is waiting for
    publish_stats,  \* flow: publish_stats
    stageError,     \* the exception that left the failing stage unrecovered
    caught,         \* flow: e of "except Exception as e"
    fallbackCount,  \* handle_fallback invocations
    fallbackArgs,   \* arguments of the handle_fallback invocation
    raised,         \* exception that left swapi_people_etl_flow
    result          \* value swapi_people_etl_flow returned

vars == <<pages, topic, active, pc, batch_id, entered, attempts, epc, url,
          all_people, requests, raw_people, transformed_messages, ppc, idx,
          published, failed, pending, sent, flushCount, closeCount, path,
          acked, reacked, inflight, publish_stats, stageError, caught,
          fallbackCount,
          fallbackArgs, raised, result>>

extractVars == <<epc, url, all_people, requests, raw_people>>
publishVars == <<ppc, idx, published, failed, pending, sent, flushCount,
                 closeCount, path, acked, reacked, inflight, publish_stats,
                 topic>>
failVars == <<stageError, caught, fallbackCount, fallbackArgs, raised, result>>

\* ------------------------------------------------------------- helpers
RECURSIVE Concat(_)
Concat(ss) == IF ss = <<>> THEN <<>> ELSE Head(ss) \o Concat(Tail(ss))

\* The upstream resources the runs are checked against.  Page u holds no
\* record or the record whose self-reference is u, and links to a later
\* page or to none ("next": null), so that every chain of pages ends.
Servers ==
    {p \in [Urls -> [results : {<<>>} \cup {<<k>> : k \in Records},
                     next : Urls \cup {Null}]] :
        \A u \in Urls : /\ p[u].results \in {<<>>, <<u>>}
                         /\ (p[u].next = Null \/ p[u].next > u)}

\* Mutant: the runner compares the attempt count inclusively and grants
\* one attempt too many.
MaxAttemptsInclusive(s) ==
    CASE s = "extract" -> 2 + ExtractRetries
      [] s = "transform" -> 2 + TransformRetries
      [] s = "publish" -> 2 + PublishRetries

\* Attempts the task runner grants a stage: the first one plus its retries.
MaxAttempts(s) ==
    CASE s = "extract" -> 1 + ExtractRetries
      [] s = "transform" -> 1 + TransformRetries
      [] s = "publish" -> 1 + PublishRetries

\* transform_people: the message built from one raw record.
Message(person, bid) == [batch_id |-> bid, record_id |-> person]

\* Mutant: the loop skips the first record of the list.
transform_peopleSkipsFirst(raw, bid) ==
    [i \in 1..(Len(raw) - (IF Len(raw) > 0 THEN 1 ELSE 0)) |->
        Message(raw[i + 1], bid)]

transform_people(raw, bid) == [i \in 1..Len(raw) |-> Message(raw[i], bid)]

\* Mutant: once the attempts are used up the exception leaves the flow
\* without passing through the except clause.
TaskFailedUnhandled(r, s, n, e) ==
    IF n < MaxAttempts(s)
       THEN UNCHANGED <<pc, stageError, caught>>
       ELSE /\ pc' = [pc EXCEPT ![r] = "Raised"]
            /\ stageError' = [stageError EXCEPT ![r] = e]
            /\ caught' = [caught EXCEPT ![r] = e]

\* The task runner after the n-th attempt of stage s failed with exception
\* e: the stage stays current while attempts are left, else e reaches the
\* flow's except clause.
TaskFailed(r, s, n, e) ==
    IF n < MaxAttempts(s)
       THEN UNCHANGED <<pc, stageError, caught>>
       ELSE /\ pc' = [pc EXCEPT ![r] = "Failed"]
            /\ stageError' = [stageError EXCEPT ![r] = e]
            /\ caught' = [caught EXCEPT ![r] = e]

\* ---------------------------------------------------------------- Init
InitRun(A) ==
    /\ pages \in Servers
    /\ topic = {}
    /\ active = A
    /\ pc = [r \in Runs |-> "Idle"]
    /\ batch_id = [r \in Runs |-> NoBatch]
    /\ entered = [r \in Runs |-> [s \in Stages |-> 0]]
    /\ attempts = [r \in Runs |-> [s \in Stages |-> 0]]
    /\ epc = [r \in Runs |-> "idle"]
    /\ url = [r \in Runs |-> Null]
    /\ all_people = [r \in Runs |-> <<>>]
    /\ requests = [r \in Runs |-> <<>>]
    /\ raw_people = [r \in Runs |-> <<>>]
    /\ transformed_messages = [r \in Runs |-> <<>>]
    /\ ppc = [r \in Runs |-> "idle"]
    /\ idx = [r \in Runs |-> 0]
    /\ published = [r \in Runs |-> 0]
    /\ failed = [r \in Runs |-> 0]
    /\ pending = [r \in Runs |-> NoError]
    /\ sent = [r \in Runs |-> <<>>]
    /\ flushCount = [r \in Runs |-> 0]
    /\ closeCount = [r \in Runs |-> 0]
    /\ path = [r \in Runs |-> "none"]
    /\ acked = [r \in Runs |-> {}]
    /\ reacked = [r \in Runs |-> {}]
    /\ inflight = [r \in Runs |-> {}]
    /\ publish_stats = [r \in Runs |-> NoStats]
    /\ stageError = [r \in Runs |-> NoError]
    /\ caught = [r \in Runs |-> NoError]
    /\ fallbackCount = [r \in Runs |-> 0]
    /\ fallbackArgs = [r \in Runs |-> NoArgs]
    /\ raised = [r \in Runs |-> NoError]
    /\ result = [r \in Runs |-> NoResult]

Init == InitRun({1})

\* ------------------------------------------------- swapi_people_etl_flow
\* Flow entry: a fresh batch id, then the call of extract_people.
FlowStart(r) ==
    /\ r \in active
    /\ pc[r] = "Idle"
    /\ \E b \in BatchIds \ {batch_id[q] : q \in Runs} :
          batch_id' = [batch_id EXCEPT ![r] = b]
    /\ pc' = [pc EXCEPT ![r] = "Extracting"]
    /\ entered' = [entered EXCEPT ![r]["extract"] = @ + 1]
    /\ UNCHANGED <<pages, active, attempts, transformed_messages>>
    /\ UNCHANGED <<extractVars, publishVars, failVars>>

\* -------------------------------------------------------- extract_people
\* Mutant: the accumulator outlives the call (a default argument or a
\* module-level list), so a retry goes on from what the failed attempt
\* had gathered.
ExtractBeginKeepsRecords(r) ==
    /\ pc[r] = "Extracting"
    /\ epc[r] = "idle"
    /\ attempts[r]["extract"] < MaxAttempts("extract")
    /\ attempts' = [attempts EXCEPT ![r]["extract"] = @ + 1]
    /\ epc' = [epc EXCEPT ![r] = "loop"]
    /\ url' = [url EXCEPT ![r] = BaseUrl]
    /\ requests' = [requests EXCEPT ![r] = <<>>]
    /\ UNCHANGED <<pages, active, pc, batch_id, entered, raw_people,
                   all_people, transformed_messages>>
    /\ UNCHANGED <<publishVars, failVars>>

\* The task runner starts an attempt: the body begins with an empty
\* accumulator at the base URL.
ExtractBegin(r) ==
    /\ pc[r] = "Extracting"
    /\ epc[r] = "idle"
    /\ attempts[r]["extract"] < MaxAttempts("extract")
    /\ attempts' = [attempts EXCEPT ![r]["extract"] = @ + 1]
    /\ epc' = [epc EXCEPT ![r] = "loop"]
    /\ all_people' = [all_people EXCEPT ![r] = <<>>]
    /\ url' = [url EXCEPT ![r] = BaseUrl]
    /\ requests' = [requests EXCEPT ![r] = <<>>]
    /\ UNCHANGED <<pages, active, pc, batch_id, entered, raw_people,
                   transformed_messages>>
    /\ UNCHANGED <<publishVars, failVars>>

\* Mutant: the page replaces the accumulator instead of extending it.
ExtendReplaces(r) == pages[url[r]].results

\* Mutant: the accumulator is one list shared by all runs, so a page is
\* appended to what every run has gathered.
ExtendSharedList(r) ==
    Concat([q \in 1..Cardinality(Runs) |-> all_people[q]])
       \o pages[url[r]].results

\* all_people.extend(people) for the page at the current url.
Extend(r) == all_people[r] \o pages[url[r]].results

\* Mutant: a page without "next" sends the loop back to the base URL.
NextUrlNeverNull(r) ==
    IF pages[url[r]].next = Null THEN BaseUrl ELSE pages[url[r]].next

\* url = data.get("next")
NextUrl(r) == pages[url[r]].next

\* One turn of "while url": the request succeeds and the page is appended.
ExtractPage(r) ==
    /\ pc[r] = "Extracting"
    /\ epc[r] = "loop"
    /\ url[r] # Null
    /\ requests' = [requests EXCEPT ![r] = Append(@, url[r])]
    /\ all_people' = [all_people EXCEPT ![r] = Extend(r)]
    /\ url' = [url EXCEPT ![r] = NextUrl(r)]
    /\ UNCHANGED <<pages, active, pc, batch_id, entered, attempts, epc,
                   raw_people, transformed_messages>>
    /\ UNCHANGED <<publishVars, failVars>>

\* Mutant: the except clause ends the loop and the records gathered so far
\* are returned.
ExtractFailReturnsPartial(r) ==
    /\ pc[r] = "Extracting"
    /\ epc[r] = "loop"
    /\ url[r] # Null
    /\ requests' = [requests EXCEPT ![r] = Append(@, url[r])]
    /\ raw_people' = [raw_people EXCEPT ![r] = all_people[r]]
    /\ epc' = [epc EXCEPT ![r] = "idle"]
    /\ pc' = [pc EXCEPT ![r] = "Transforming"]
    /\ entered' = [entered EXCEPT ![r]["transform"] = @ + 1]
    /\ UNCHANGED <<pages, active, batch_id, attempts, url, all_people,
                   transformed_messages>>
    /\ UNCHANGED <<publishVars, failVars>>

\* One turn of "while url": the request raises, or the attempt times out.
ExtractFail(r) ==
    /\ pc[r] = "Extracting"
    /\ epc[r] = "loop"
    /\ url[r] # Null
    /\ \E e \in {"RequestException", "TimeoutError"} :
          /\ requests' = [requests EXCEPT ![r] =
                IF e = "RequestException" THEN Append(@, url[r]) ELSE @]
          /\ TaskFailed(r, "extract", attempts[r]["extract"], e)
    /\ epc' = [epc EXCEPT ![r] = "idle"]
    /\ UNCHANGED <<pages, active, batch_id, entered, attempts, url,
                   all_people, raw_people, transformed_messages>>
    /\ UNCHANGED <<publishVars, fallbackCount, fallbackArgs, raised, result>>

\* "while url" ends: the accumulator is returned and the flow calls
\* transform_people.
ExtractReturn(r) ==
    /\ pc[r] = "Extracting"
    /\ epc[r] = "loop"
    /\ url[r] = Null
    /\ raw_people' = [raw_people EXCEPT ![r] = all_people[r]]
    /\ epc' = [epc EXCEPT ![r] = "idle"]
    /\ pc' = [pc EXCEPT ![r] = "Transforming"]
    /\ entered' = [entered EXCEPT ![r]["transform"] = @ + 1]
    /\ UNCHANGED <<pages, active, batch_id, attempts, url, all_people,
                   requests, transformed_messages>>
    /\ UNCHANGED <<publishVars, failVars>>

\* ------------------------------------------------------ transform_people
\* Mutant: transform_people may start while extract_people is under way.
TransformCallableEarly(r) == pc[r] \in {"Extracting", "Transforming"}

\* The flow calls transform_people once extract_people has returned.
TransformCallable(r) == pc[r] = "Transforming"

\* An attempt of the task runs the whole body: one message per record, in
\* order; the flow then calls publish_to_kafka.
TransformRun(r) ==
    /\ TransformCallable(r)
    /\ attempts[r]["transform"] < MaxAttempts("transform")
    /\ attempts' = [attempts EXCEPT ![r]["transform"] = @ + 1]
    /\ transformed_messages' = [transformed_messages EXCEPT ![r] =
          transform_people(raw_people[r], batch_id[r])]
    /\ pc' = [pc EXCEPT ![r] = "Publishing"]
    /\ entered' = [entered EXCEPT ![r]["publish"] = @ + 1]
    /\ UNCHANGED <<pages, active, batch_id>>
    /\ UNCHANGED <<extractVars, publishVars>>
    /\ UNCHANGED failVars

\* An attempt of the task raises (a record the body cannot read, or the
\* attempt's timeout): no message list is returned.
TransformFail(r) ==
    /\ TransformCallable(r)
    /\ attempts[r]["transform"] < MaxAttempts("transform")
    /\ attempts' = [attempts EXCEPT ![r]["transform"] = @ + 1]
    /\ \E e \in {"TransformError", "TimeoutError"} :
          TaskFailed(r, "transform", attempts[r]["transform"] + 1, e)
    /\ UNCHANGED <<pages, active, batch_id, entered, transformed_messages>>
    /\ UNCHANGED <<extractVars, publishVars>>
    /\ UNCHANGED <<fallbackCount, fallbackArgs, raised, result>>

\* ------------------------------------------------------ publish_to_kafka
\* The task runner starts an attempt: KafkaProducer(...) connects and the
\* counters start at zero, or the constructor raises before the try block.
PublishBegin(r) ==
    /\ pc[r] = "Publishing"
    /\ ppc[r] = "idle"
    /\ attempts[r]["publish"] < MaxAttempts("publish")
    /\ attempts' = [attempts EXCEPT ![r]["publish"] = @ + 1]
    /\ published' = [published EXCEPT ![r] = 0]
    /\ failed' = [failed EXCEPT ![r] = 0]
    /\ idx' = [idx EXCEPT ![r] = 1]
    /\ pending' = [pending EXCEPT ![r] = NoError]
    /\ sent' = [sent EXCEPT ![r] =
          [i \in 1..Len(transformed_messages[r]) |-> 0]]
    /\ flushCount' = [flushCount EXCEPT ![r] = 0]
    /\ closeCount' = [closeCount EXCEPT ![r] = 0]
    /\ inflight' = [inflight EXCEPT ![r] = {}]
    /\ \/ /\ ppc' = [ppc EXCEPT ![r] = "loop"]
          /\ path' = [path EXCEPT ![r] = "none"]
          /\ UNCHANGED <<pc, stageError, caught>>
       \/ /\ ppc' = [ppc EXCEPT ![r] = "idle"]
          /\ path' = [path EXCEPT ![r] = "ctor_exc"]
          /\ TaskFailed(r, "publish", attempts[r]["publish"] + 1,
                        "NoBrokersAvailable")
    /\ UNCHANGED <<pages, active, batch_id, entered, transformed_messages>>
    /\ UNCHANGED <<extractVars, acked, reacked, publish_stats, topic>>
    /\ UNCHANGED <<fallbackCount, fallbackArgs, raised, result>>

\* Mutant: the inner except forgets to count the failure.
MessageFailedUncounted(r) ==
    /\ idx' = [idx EXCEPT ![r] = @ + 1]
    /\ ppc' = [ppc EXCEPT ![r] = "loop"]
    /\ UNCHANGED <<failed, pending, path>>

\* Mutant: the inner except counts the failure and re-raises it, which
\* ends the batch.
MessageFailedAborts(r) ==
    /\ failed' = [failed EXCEPT ![r] = @ + 1]
    /\ pending' = [pending EXCEPT ![r] = "KafkaError"]
    /\ path' = [path EXCEPT ![r] = "loop_exc"]
    /\ ppc' = [ppc EXCEPT ![r] = "close"]
    /\ UNCHANGED idx

\* except KafkaError: failed += 1, and the for loop takes the next message.
MessageFailed(r) ==
    /\ failed' = [failed EXCEPT ![r] = @ + 1]
    /\ idx' = [idx EXCEPT ![r] = @ + 1]
    /\ ppc' = [ppc EXCEPT ![r] = "loop"]
    /\ UNCHANGED <<pending, path>>

\* Any other exception: the outer except logs and re-raises it, which
\* leads to the finally.
LoopAborted(r) ==
    /\ pending' = [pending EXCEPT ![r] = "PublishError"]
    /\ path' = [path EXCEPT ![r] = "loop_exc"]
    /\ ppc' = [ppc EXCEPT ![r] = "close"]
    /\ UNCHANGED <<idx, failed>>

\* The call producer.send(KAFKA_TOPIC, key=message["record_id"],
\* value=message) for the message of the loop, whose future the loop
\* holds until future.get() has ended.
SendCall(r) ==
    [index |-> idx[r],
     key |-> transformed_messages[r][idx[r]].record_id,
     value |-> transformed_messages[r][idx[r]]]

\* Mutant: the loop keeps the future and goes on to the next message
\* without waiting for the acknowledgment.
PublishSendNoWait(r) ==
    /\ pc[r] = "Publishing"
    /\ ppc[r] = "loop"
    /\ idx[r] <= Len(transformed_messages[r])
    /\ sent' = [sent EXCEPT ![r][idx[r]] = @ + 1]
    /\ inflight' = [inflight EXCEPT ![r] = @ \cup {SendCall(r)}]
    /\ idx' = [idx EXCEPT ![r] = @ + 1]
    /\ UNCHANGED <<pages, active, pc, batch_id, entered, attempts,
                   transformed_messages>>
    /\ UNCHANGED <<extractVars, published, flushCount, closeCount, acked,
                   reacked, publish_stats, topic, ppc, failed, pending, path>>
    /\ UNCHANGED failVars

\* producer.send(topic, key=record_id, value=message) for the message of
\* the loop: it hands back a future, raises a KafkaError (caught by the
\* inner except: failed += 1, next message), or raises anything else
\* (which leaves the loop through the outer except to the finally).
PublishSend(r) ==
    /\ pc[r] = "Publishing"
    /\ ppc[r] = "loop"
    /\ idx[r] <= Len(transformed_messages[r])
    /\ sent' = [sent EXCEPT ![r][idx[r]] = @ + 1]
    /\ \/ /\ ppc' = [ppc EXCEPT ![r] = "await"]
          /\ inflight' = [inflight EXCEPT ![r] = @ \cup {SendCall(r)}]
          /\ UNCHANGED <<idx, failed, pending, path>>
       \/ /\ MessageFailed(r)
          /\ UNCHANGED inflight
       \/ /\ LoopAborted(r)
          /\ UNCHANGED inflight
    /\ UNCHANGED <<pages, active, pc, batch_id, entered, attempts,
                   transformed_messages>>
    /\ UNCHANGED <<extractVars, published, flushCount, closeCount, acked,
                   reacked, publish_stats, topic>>
    /\ UNCHANGED failVars

\* future.get(timeout=10): the broker acknowledges (published += 1), the
\* wait raises a KafkaError (failed += 1), or anything else is raised.
PublishAck(r) ==
    /\ pc[r] = "Publishing"
    /\ ppc[r] = "await"
    /\ inflight' = [inflight EXCEPT ![r] = {f \in @ : f.index # idx[r]}]
    /\ \/ /\ published' = [published EXCEPT ![r] = @ + 1]
          /\ acked' = [acked EXCEPT ![r] = @ \cup {idx[r]}]
          /\ reacked' = [reacked EXCEPT ![r] =
                IF idx[r] \in acked[r] THEN @ \cup {idx[r]} ELSE @]
          /\ topic' = topic \cup {transformed_messages[r][idx[r]]}
          /\ idx' = [idx EXCEPT ![r] = @ + 1]
          /\ ppc' = [ppc EXCEPT ![r] = "loop"]
          /\ UNCHANGED <<failed, pending, path>>
       \/ /\ MessageFailed(r)
          /\ UNCHANGED <<published, acked, reacked, topic>>
       \/ /\ LoopAborted(r)
          /\ UNCHANGED <<published, acked, reacked, topic>>
    /\ UNCHANGED <<pages, active, pc, batch_id, entered, attempts,
                   transformed_messages>>
    /\ UNCHANGED <<extractVars, sent, flushCount, closeCount, publish_stats>>
    /\ UNCHANGED failVars

\* Mutant: the call goes from the loop to the return without flush().
PublishFlushSkipped(r) ==
    /\ pc[r] = "Publishing"
    /\ ppc[r] = "loop"
    /\ idx[r] > Len(transformed_messages[r])
    /\ ppc' = [ppc EXCEPT ![r] = "close"]
    /\ path' = [path EXCEPT ![r] = "return"]
    /\ UNCHANGED <<pages, active, pc, batch_id, entered, attempts,
                   transformed_messages>>
    /\ UNCHANGED <<extractVars, idx, published, failed, sent, closeCount,
                   acked, reacked, inflight, publish_stats, topic, pending,
                   flushCount>>
    /\ UNCHANGED failVars

\* After the loop: producer.flush(), then the stats are built for the
\* return; or flush raises.
PublishFlush(r) ==
    /\ pc[r] = "Publishing"
    /\ ppc[r] = "loop"
    /\ idx[r] > Len(transformed_messages[r])
    /\ flushCount' = [flushCount EXCEPT ![r] = @ + 1]
    /\ ppc' = [ppc EXCEPT ![r] = "close"]
    /\ \/ /\ path' = [path EXCEPT ![r] = "return"]
          /\ UNCHANGED pending
       \/ /\ path' = [path EXCEPT ![r] = "flush_exc"]
          /\ pending' = [pending EXCEPT ![r] = "FlushError"]
    /\ UNCHANGED <<pages, active, pc, batch_id, entered, attempts,
                   transformed_messages>>
    /\ UNCHANGED <<extractVars, idx, published, failed, sent, closeCount,
                   acked, reacked, inflight, publish_stats, topic>>
    /\ UNCHANGED failVars

\* The stats dictionary of the return statement.
Stats(r) == [total |-> Len(transformed_messages[r]),
             published |-> published[r],
             failed |-> failed[r],
             topic |-> KAFKA_TOPIC]

\* Mutant: close() sits at the end of the try block, not in a finally.
CloseCallsOnReturnOnly(r) ==
    IF pending[r] = NoError THEN closeCount[r] + 1 ELSE closeCount[r]

\* finally: producer.close() runs whatever is pending.
CloseCalls(r) == closeCount[r] + 1

\* finally: producer.close(); then the pending return hands the stats to
\* the flow (the counters have not changed since the stats were built),
\* or the pending exception (or one raised by close) fails the attempt.
PublishClose(r) ==
    /\ pc[r] = "Publishing"
    /\ ppc[r] = "close"
    /\ closeCount' = [closeCount EXCEPT ![r] = CloseCalls(r)]
    /\ ppc' = [ppc EXCEPT ![r] = "idle"]
    /\ \/ /\ pending[r] = NoError
          /\ publish_stats' = [publish_stats EXCEPT ![r] = Stats(r)]
          /\ pc' = [pc EXCEPT ![r] = "Summarizing"]
          /\ UNCHANGED <<pending, stageError, caught>>
       \/ /\ pending[r] # NoError
          /\ TaskFailed(r, "publish", attempts[r]["publish"], pending[r])
          /\ UNCHANGED <<pending, publish_stats>>
       \/ /\ pending' = [pending EXCEPT ![r] = "CloseError"]
          /\ TaskFailed(r, "publish", attempts[r]["publish"], "CloseError")
          /\ UNCHANGED publish_stats
    /\ UNCHANGED <<pages, active, batch_id, entered, attempts,
                   transformed_messages>>
    /\ UNCHANGED <<extractVars, idx, published, failed, sent, flushCount,
                   path, acked, reacked, inflight, topic>>
    /\ UNCHANGED <<fallbackCount, fallbackArgs, raised, result>>

\* ---------------------------------------- swapi_people_etl_flow, the end
\* Mutant: the result reports the total where the failed count belongs.
FlowResultWrongCount(r) ==
    [batch_id |-> batch_id[r],
     status |-> "success",
     people_fetched |-> Len(raw_people[r]),
     messages_published |-> publish_stats[r].published,
     messages_failed |-> publish_stats[r].total]

\* The result dictionary of the flow's return statement.
FlowResult(r) == [batch_id |-> batch_id[r],
                  status |-> "success",
                  people_fetched |-> Len(raw_people[r]),
                  messages_published |-> publish_stats[r].published,
                  messages_failed |-> publish_stats[r].failed]

\* The summary is built and handed to create_markdown_artifact, inside the
\* try block: the flow returns its result, or the artifact call raises and
\* the except clause catches it.
Summarize(r) ==
    /\ pc[r] = "Summarizing"
    /\ \/ /\ result' = [result EXCEPT ![r] = FlowResult(r)]
          /\ pc' = [pc EXCEPT ![r] = "Done"]
          /\ UNCHANGED <<stageError, caught>>
       \/ /\ stageError' = [stageError EXCEPT ![r] = "ArtifactError"]
          /\ caught' = [caught EXCEPT ![r] = "ArtifactError"]
          /\ pc' = [pc EXCEPT ![r] = "Failed"]
          /\ UNCHANGED result
    /\ UNCHANGED <<pages, active, batch_id, entered, attempts,
                   transformed_messages>>
    /\ UNCHANGED <<extractVars, publishVars>>
    /\ UNCHANGED <<fallbackCount, fallbackArgs, raised>>

\* The arguments of handle_fallback(e, batch_id, {"stage": "unknown"}).
FallbackCall(r) == [error |-> caught[r], batch_id |-> batch_id[r],
                    stage |-> "unknown"]

\* except Exception as e: the handler is called.
InvokeFallback(r) ==
    /\ pc[r] = "Failed"
    /\ fallbackCount' = [fallbackCount EXCEPT ![r] = @ + 1]
    /\ fallbackArgs' = [fallbackArgs EXCEPT ![r] = FallbackCall(r)]
    /\ pc' = [pc EXCEPT ![r] = "FallbackInvoked"]
    /\ UNCHANGED <<pages, active, batch_id, entered, attempts,
                   transformed_messages>>
    /\ UNCHANGED <<extractVars, publishVars>>
    /\ UNCHANGED <<stageError, caught, raised, result>>

\* The exception the bare "raise" after the handler call re-raises.
Reraise(r) == caught[r]

\* handle_fallback returns and the flow executes "raise".
FallbackReturn(r) ==
    /\ pc[r] = "FallbackInvoked"
    /\ raised' = [raised EXCEPT ![r] = Reraise(r)]
    /\ pc' = [pc EXCEPT ![r] = "Raised"]
    /\ UNCHANGED <<pages, active, batch_id, entered, attempts,
                   transformed_messages>>
    /\ UNCHANGED <<extractVars, publishVars>>
    /\ UNCHANGED <<stageError, caught, fallbackCount, fallbackArgs, result>>

\* handle_fallback itself raises inside the except clause: nothing guards
\* the call, so that exception leaves the flow and "raise" is not reached.
FallbackRaise(r) ==
    /\ pc[r] = "FallbackInvoked"
    /\ raised' = [raised EXCEPT ![r] = "FallbackError"]
    /\ pc' = [pc EXCEPT ![r] = "Raised"]
    /\ UNCHANGED <<pages, active, batch_id, entered, attempts,
                   transformed_messages>>
    /\ UNCHANGED <<extractVars, publishVars>>
    /\ UNCHANGED <<stageError, caught, fallbackCount, fallbackArgs, result>>

\* ---------------------------------------------------------------- Next
Next ==
    \E r \in Runs :
        \/ FlowStart(r)
        \/ ExtractBegin(r)
        \/ ExtractPage(r)
        \/ ExtractFail(r)
        \/ ExtractReturn(r)
        \/ TransformRun(r)
        \/ TransformFail(r)
        \/ PublishBegin(r)
        \/ PublishSend(r)
        \/ PublishAck(r)
        \/ PublishFlush(r)
        \/ PublishClose(r)
        \/ Summarize(r)
        \/ InvokeFallback(r)
        \/ FallbackReturn(r)
        \/ FallbackRaise(r)

Spec == Init /\ [][Next]_vars

\* ======================================================== properties
\* The run has failed: the except clause of the flow is or was running.
InFailure(r) == pc[r] \in {"Failed", "FallbackInvoked", "Raised"}

\* extract_people has returned to the flow.
Extracted(r) == entered[r]["transform"] = 1

\* publish_to_kafka has returned its stats to the flow.
PublishReturned(r) == publish_stats[r] # NoStats

\* C1: a publish_to_kafka call that returns yields stats with
\* published + failed = total = the number of input messages, whatever
\* the pattern of per-message broker failures.
C1_OutcomeAccounts ==
    \A r \in Runs :
        PublishReturned(r) =>
            /\ publish_stats[r].published + publish_stats[r].failed
                  = publish_stats[r].total
            /\ publish_stats[r].total = Len(transformed_messages[r])

\* A call returned with one message acknowledged and one failed.
C1_Witness ==
    \E r \in Runs : /\ PublishReturned(r)
                    /\ publish_stats[r].published = 1
                    /\ publish_stats[r].failed = 1

\* C2: within one run no message is acknowledged by the broker more than
\* once, also when the task runner re-invokes publish_to_kafka after a
\* failure that followed earlier acknowledgments.
C2_AcknowledgedOncePerRun == \A r \in Runs : reacked[r] = {}

\* C3: within one call every message is submitted exactly once: a
\* KafkaError on message i (from send or from the acknowledgment wait)
\* counts one failure and moves the loop to message i+1, so that a loop
\* that reaches flush has sent every message, and no message is sent
\* again within the call.  (KafkaError is the publish-level exception
\* the inner except catches; any other exception leaves the loop.)
C3_Inv ==
    \A r \in Runs :
        /\ \A i \in DOMAIN sent[r] : sent[r][i] <= 1
        /\ ppc[r] \in {"loop", "await"} =>
              \A i \in DOMAIN sent[r] :
                  sent[r][i] = IF i < idx[r] \/ (i = idx[r] /\ ppc[r] = "await")
                                  THEN 1 ELSE 0
        /\ path[r] \in {"return", "flush_exc"} =>
              \A i \in DOMAIN sent[r] : sent[r][i] = 1

C3_Step ==
    \A r \in Runs :
        failed'[r] = failed[r] + 1 =>
            /\ ppc'[r] = "loop"
            /\ idx'[r] = idx[r] + 1
            /\ path'[r] = "none"

C3_EverySubmittedOnce == [] C3_Inv /\ [][C3_Step]_vars

\* The first message failed and the second one has been submitted.
C3_Witness ==
    \E r \in Runs : /\ ppc[r] = "await"
                    /\ idx[r] = 2
                    /\ failed[r] = 1
                    /\ sent[r] = <<1, 1>>

\* C4: producer.close is called exactly once per call on every exit path
\* of the try block: the return, an exception leaving the message loop,
\* and an exception raised by flush; and never before the finally.
C4_ClosedExactlyOnce ==
    \A r \in Runs :
        /\ closeCount[r] <= 1
        /\ ppc[r] \in {"loop", "await", "close"} => closeCount[r] = 0
        /\ (ppc[r] = "idle" /\ path[r] \in {"return", "loop_exc", "flush_exc"})
              => closeCount[r] = 1

\* A call that flush ended with an exception has finished, closed once.
C4_Witness ==
    \E r \in Runs : /\ ppc[r] = "idle"
                    /\ path[r] = "flush_exc"
                    /\ closeCount[r] = 1

\* C5: when a stage raises an unrecovered exception the handler is invoked
\* exactly once in that run, with that exception and the run's batch id;
\* it is never invoked in a run that returns a result; and after the
\* handler has run, that exception is the one re-raised to the caller.
C5_FallbackOnceThenReraise ==
    \A r \in Runs :
        /\ fallbackCount[r] <= 1
        /\ pc[r] \in {"FallbackInvoked", "Raised"} =>
              /\ fallbackCount[r] = 1
              /\ fallbackArgs[r].error = stageError[r]
              /\ fallbackArgs[r].batch_id = batch_id[r]
        /\ ~InFailure(r) => fallbackCount[r] = 0
        /\ pc[r] = "Raised" => raised[r] = stageError[r] /\ result[r] = NoResult

\* C6: in every failed run the exception that reaches the caller of the
\* flow is the one the stage raised, also when the handler itself raises.
C6_OriginalErrorSurfaces ==
    \A r \in Runs : pc[r] = "Raised" => raised[r] = stageError[r]

\* The page sequence of the upstream resource from URL u on.
RECURSIVE ChainFrom(_)
ChainFrom(u) == IF u = Null THEN <<>> ELSE <<u>> \o ChainFrom(pages[u].next)

\* The results of the pages us, concatenated in that order.
PageResults(us) == Concat([i \in 1..Len(us) |-> pages[us[i]].results])

IsPrefix(a, b) == Len(a) <= Len(b) /\ a = SubSeq(b, 1, Len(a))

\* C7: extract_people returns the concatenation of every page's results
\* in request order and has issued exactly one request per page of the
\* chain: the first to the base URL, each later one to the previous
\* page's next URL.
C7_ExtractConcatenatesPages ==
    \A r \in Runs :
        /\ (pc[r] = "Extracting" /\ epc[r] = "loop") =>
              /\ IsPrefix(requests[r], ChainFrom(BaseUrl))
              /\ all_people[r] = PageResults(requests[r])
        /\ Extracted(r) =>
              /\ requests[r] = ChainFrom(BaseUrl)
              /\ raw_people[r] = PageResults(ChainFrom(BaseUrl))

\* Two pages were fetched, on a retry, and their records are in order.
C7_Witness ==
    \E r \in Runs : /\ Extracted(r)
                    /\ attempts[r]["extract"] = 2
                    /\ requests[r] = <<1, 2>>
                    /\ raw_people[r] = <<1, 2>>

\* The stage whose exception reached the flow's except clause.
FailedStage(r) ==
    IF ~Extracted(r) THEN "extract"
    ELSE IF entered[r]["publish"] = 0 THEN "transform"
    ELSE IF ~PublishReturned(r) THEN "publish"
    ELSE "summary"

\* C8 as stated: every stage is attempted at most as many times as its
\* decorator's number says: extraction 3, transform 2, publish 5.
C8_AttemptsAtMostDeclared ==
    \A r \in Runs :
        /\ attempts[r]["extract"] <= ExtractRetries
        /\ attempts[r]["transform"] <= TransformRetries
        /\ attempts[r]["publish"] <= PublishRetries

\* C8 as amended: every stage is attempted at most once plus its declared
\* number of retries (extraction 4, transform 3, publish 6); a stage waits
\* for another attempt only while attempts are left, and its exception
\* reaches the flow exactly after the last attempt failed.
C8_AttemptsAtMostOnePlusRetries ==
    \A r \in Runs :
        /\ attempts[r]["extract"] <= 1 + ExtractRetries
        /\ attempts[r]["transform"] <= 1 + TransformRetries
        /\ attempts[r]["publish"] <= 1 + PublishRetries
        /\ (pc[r] = "Extracting" /\ epc[r] = "idle") =>
              attempts[r]["extract"] < 1 + ExtractRetries
        /\ pc[r] = "Transforming" =>
              attempts[r]["transform"] < 1 + TransformRetries
        /\ (pc[r] = "Publishing" /\ ppc[r] = "idle") =>
              attempts[r]["publish"] < 1 + PublishRetries
        /\ (InFailure(r) /\ FailedStage(r) = "extract") =>
              attempts[r]["extract"] = 1 + ExtractRetries
        /\ (InFailure(r) /\ FailedStage(r) = "transform") =>
              attempts[r]["transform"] = 1 + TransformRetries
        /\ (InFailure(r) /\ FailedStage(r) = "publish") =>
              attempts[r]["publish"] = 1 + PublishRetries

\* The sixth publish attempt failed and its exception reached the flow.
C8_Witness ==
    \E r \in Runs : /\ pc[r] = "Failed"
                    /\ FailedStage(r) = "publish"
                    /\ attempts[r]["publish"] = 6
                    /\ attempts[r]["extract"] = 4
                    /\ attempts[r]["transform"] = 3

\* C9 as stated: whenever publish_to_kafka returns stats with failed > 0
\* the run is in Summarizing or returns status "success" with
\* messages_failed equal to that count, and the handler is not invoked.
C9_MessageFailureNeverFailsRun ==
    \A r \in Runs :
        (PublishReturned(r) /\ publish_stats[r].failed > 0) =>
            /\ pc[r] \in {"Summarizing", "Done"}
            /\ fallbackCount[r] = 0
            /\ pc[r] = "Done" =>
                  /\ result[r].status = "success"
                  /\ result[r].messages_failed = publish_stats[r].failed

\* C9 as amended: whenever publish_to_kafka returns stats with failed > 0
\* the run proceeds to Summarizing without the handler being invoked, and
\* when the summary is emitted it returns status "success" with
\* messages_failed equal to that count; the run can then fail only by an
\* exception of the summary emission, which is what the handler receives.
C9_MessageFailureIsNotRunFailure ==
    \A r \in Runs :
        (PublishReturned(r) /\ publish_stats[r].failed > 0) =>
            /\ \/ pc[r] \in {"Summarizing", "Done"}
               \/ InFailure(r) /\ stageError[r] = "ArtifactError"
            /\ pc[r] \in {"Summarizing", "Done"} => fallbackCount[r] = 0
            /\ fallbackCount[r] > 0 => fallbackArgs[r].error = "ArtifactError"
            /\ pc[r] = "Done" =>
                  /\ result[r].status = "success"
                  /\ result[r].messages_failed = publish_stats[r].failed

\* A run returned success although every message failed.
C9_Witness ==
    \E r \in Runs : /\ pc[r] = "Done"
                    /\ publish_stats[r].failed = 2
                    /\ publish_stats[r].total = 2
                    /\ result[r].status = "success"
                    /\ result[r].messages_failed = 2

\* Position of an orchestrator state in the order of a run.
Rank(p) ==
    CASE p = "Idle" -> 0
      [] p = "Extracting" -> 1
      [] p = "Transforming" -> 2
      [] p = "Publishing" -> 3
      [] p = "Summarizing" -> 4
      [] p = "Done" -> 5
      [] OTHER -> 6

\* C10: stages run strictly in the order Extract, Transform, Publish:
\* transform_people starts only after extract_people has returned (after
\* its retries), publish_to_kafka only after transform_people has
\* returned, no stage runs while another is under way, and the flow
\* enters each stage at most once.
C10_Inv ==
    \A r \in Runs :
        /\ \A s \in Stages : entered[r][s] <= 1
        /\ epc[r] = "loop" => pc[r] = "Extracting"
        /\ ppc[r] # "idle" => pc[r] = "Publishing"
        /\ attempts[r]["transform"] > 0 =>
              /\ Extracted(r)
              /\ epc[r] = "idle"
              /\ raw_people[r] = all_people[r]
        /\ attempts[r]["publish"] > 0 =>
              /\ entered[r]["publish"] = 1
              /\ transformed_messages[r]
                    = transform_people(raw_people[r], batch_id[r])
        /\ pc[r] \in {"Idle", "Extracting"} =>
              attempts[r]["transform"] = 0 /\ attempts[r]["publish"] = 0
        /\ pc[r] = "Transforming" => attempts[r]["publish"] = 0

C10_Step ==
    \A r \in Runs :
        /\ Rank(pc'[r]) >= Rank(pc[r])
        /\ attempts'[r]["extract"] # attempts[r]["extract"] =>
              pc[r] = "Extracting"
        /\ attempts'[r]["transform"] # attempts[r]["transform"] =>
              pc[r] = "Transforming"
        /\ attempts'[r]["publish"] # attempts[r]["publish"] =>
              pc[r] = "Publishing"

C10_StagesInOrder == [] C10_Inv /\ [][C10_Step]_vars

\* Publishing is under way after extraction and transform were retried.
C10_Witness ==
    \E r \in Runs : /\ pc[r] = "Publishing"
                    /\ ppc[r] = "await"
                    /\ attempts[r]["extract"] = 2
                    /\ attempts[r]["transform"] = 2
                    /\ Len(transformed_messages[r]) = 2


\* ------------------------------------------------------------------ C11
\* C11: in every successful run the result's messages_published plus
\* messages_failed equals its people_fetched, and people_fetched is the
\* number of records the last, successful attempt of extract_people
\* returned: the records of the pages that attempt requested.
C11_CountsMatchFetched ==
    \A r \in Runs :
        pc[r] = "Done" =>
            /\ result[r].messages_published + result[r].messages_failed
                  = result[r].people_fetched
            /\ result[r].people_fetched = Len(raw_people[r])
            /\ result[r].people_fetched = Len(PageResults(requests[r]))

\* A successful run whose extraction succeeded at a later attempt and
\* whose two records split into one published and one failed message.
C11_Witness ==
    \E r \in Runs :
        /\ pc[r] = "Done"
        /\ attempts[r]["extract"] > 1
        /\ result[r].people_fetched = 2
        /\ result[r].messages_published = 1
        /\ result[r].messages_failed = 1


\* ------------------------------------------------------------------ C12
\* transform_people on concrete records.  A record is given by its "url"
\* field, a string written as the sequence of its characters, or by the
\* absence of that field.  The run stands at the flow's call of
\* transform_people; the records are those extract_people returned.
MaxUrlLen == 2

MaxRecords == 2

Chars == {"/", "1", "2"}

NoUrl == <<"absent">>

UrlStrings == UNION {[1..n -> Chars] : n \in 0..MaxUrlLen}

People == [url : UrlStrings \cup {NoUrl}]

PeopleLists == UNION {[1..n -> People] : n \in 0..MaxRecords}

\* person.get("url", "")
GetUrl(person) == IF person.url = NoUrl THEN <<>> ELSE person.url

\* str.split("/"): the pieces between the separators, empty ones included.
RECURSIVE Split(_)
Split(str) ==
    IF \A i \in 1..Len(str) : str[i] # "/"
       THEN <<str>>
       ELSE LET i == CHOOSE k \in 1..Len(str) :
                        /\ str[k] = "/"
                        /\ \A j \in 1..(k - 1) : str[j] # "/"
            IN  <<SubSeq(str, 1, i - 1)>> \o Split(SubSeq(str, i + 1, Len(str)))

\* What an index out of range yields in place of a piece.
IndexError == <<"IndexError">>

\* parts[-k]: the k-th element from the end, or IndexError.
FromEnd(parts, k) ==
    IF Len(parts) >= k THEN parts[Len(parts) - k + 1] ELSE IndexError

\* str(uuid.uuid4()): the n-th value generated in the call, unlike every
\* other one and unlike every piece of a url.
Uuid4(n) == <<"uuid4">> \o [k \in 1..n |-> "-"]

\* Mutant: the last piece of the url is taken, which is empty for a url
\* that ends with the separator.
record_idLastPiece(u, n) ==
    IF u # <<>> THEN FromEnd(Split(u), 1) ELSE Uuid4(n)

\* record_id = url.split("/")[-2] if url else str(uuid.uuid4())
record_id(u, n) ==
    IF u # <<>> THEN FromEnd(Split(u), 2) ELSE Uuid4(n)

\* The message dictionary of one record (ingested_at, the clock's reading,
\* is left out).
UrlMessage(person, bid, n) ==
    [batch_id |-> bid,
     record_id |-> record_id(GetUrl(person), n),
     payload |-> person]

\* The for loop of transform_people from record i on, out being the
\* messages appended so far: an exception ends the call with no list.
RECURSIVE TransformLoop(_, _, _, _)
TransformLoop(raw, bid, i, out) ==
    IF i > Len(raw)
       THEN [raised |-> NoError, messages |-> out]
       ELSE IF record_id(GetUrl(raw[i]), i) = IndexError
               THEN [raised |-> "IndexError", messages |-> <<>>]
               ELSE TransformLoop(raw, bid, i + 1,
                                  Append(out, UrlMessage(raw[i], bid, i)))

TransformUrls(raw, bid) == TransformLoop(raw, bid, 1, <<>>)


\* The flow's state at the call of transform_people(raw_people, batch_id).
InitTransform ==
    /\ pages = [u \in Urls |-> [results |-> <<>>, next |-> Null]]
    /\ topic = {}
    /\ active = {1}
    /\ pc = [r \in Runs |-> IF r = 1 THEN "Transforming" ELSE "Idle"]
    /\ \E b \in BatchIds :
          batch_id = [r \in Runs |-> IF r = 1 THEN b ELSE NoBatch]
    /\ entered = [r \in Runs |-> [s \in Stages |->
          IF r = 1 /\ s \in {"extract", "transform"} THEN 1 ELSE 0]]
    /\ attempts = [r \in Runs |-> [s \in Stages |->
          IF r = 1 /\ s = "extract" THEN 1 ELSE 0]]
    /\ epc = [r \in Runs |-> "idle"]
    /\ url = [r \in Runs |-> Null]
    /\ \E raw \in PeopleLists :
          /\ all_people = [r \in Runs |-> IF r = 1 THEN raw ELSE <<>>]
          /\ raw_people = [r \in Runs |-> IF r = 1 THEN raw ELSE <<>>]
    /\ requests = [r \in Runs |-> IF r = 1 THEN <<BaseUrl>> ELSE <<>>]
    /\ transformed_messages = [r \in Runs |-> <<>>]
    /\ ppc = [r \in Runs |-> "idle"]
    /\ idx = [r \in Runs |-> 0]
    /\ published = [r \in Runs |-> 0]
    /\ failed = [r \in Runs |-> 0]
    /\ pending = [r \in Runs |-> NoError]
    /\ sent = [r \in Runs |-> <<>>]
    /\ flushCount = [r \in Runs |-> 0]
    /\ closeCount = [r \in Runs |-> 0]
    /\ path = [r \in Runs |-> "none"]
    /\ acked = [r \in Runs |-> {}]
    /\ reacked = [r \in Runs |-> {}]
    /\ inflight = [r \in Runs |-> {}]
    /\ publish_stats = [r \in Runs |-> NoStats]
    /\ stageError = [r \in Runs |-> NoError]
    /\ caught = [r \in Runs |-> NoError]
    /\ fallbackCount = [r \in Runs |-> 0]
    /\ fallbackArgs = [r \in Runs |-> NoArgs]
    /\ raised = [r \in Runs |-> NoError]
    /\ result = [r \in Runs |-> NoResult]

\* An attempt of the task on these records returns the message list and
\* the flow calls publish_to_kafka.
TransformUrlsReturn(r) ==
    /\ TransformCallable(r)
    /\ attempts[r]["transform"] < MaxAttempts("transform")
    /\ TransformUrls(raw_people[r], batch_id[r]).raised = NoError
    /\ attempts' = [attempts EXCEPT ![r]["transform"] = @ + 1]
    /\ transformed_messages' = [transformed_messages EXCEPT ![r] =
          TransformUrls(raw_people[r], batch_id[r]).messages]
    /\ pc' = [pc EXCEPT ![r] = "Publishing"]
    /\ entered' = [entered EXCEPT ![r]["publish"] = @ + 1]
    /\ UNCHANGED <<pages, active, batch_id>>
    /\ UNCHANGED <<extractVars, publishVars>>
    /\ UNCHANGED failVars

\* An attempt of the task on these records raises: the runner retries
\* the task or hands the exception to the flow.
TransformUrlsRaise(r) ==
    /\ TransformCallable(r)
    /\ attempts[r]["transform"] < MaxAttempts("transform")
    /\ TransformUrls(raw_people[r], batch_id[r]).raised # NoError
    /\ attempts' = [attempts EXCEPT ![r]["transform"] = @ + 1]
    /\ TaskFailed(r, "transform", attempts[r]["transform"] + 1,
                  TransformUrls(raw_people[r], batch_id[r]).raised)
    /\ UNCHANGED <<pages, active, batch_id, entered, transformed_messages>>
    /\ UNCHANGED <<extractVars, publishVars>>
    /\ UNCHANGED <<fallbackCount, fallbackArgs, raised, result>>

NextTransform ==
    \E r \in Runs :
        \/ TransformUrlsReturn(r)
        \/ TransformUrlsRaise(r)

SpecTransform == InitTransform /\ [][NextTransform]_vars


\* The url has a separator, hence at least two pieces.
HasSlash(u) == \E i \in 1..Len(u) : u[i] = "/"

\* The pieces joined by the separator.
RECURSIVE Join(_)
Join(parts) ==
    IF Len(parts) = 1 THEN parts[1]
    ELSE parts[1] \o <<"/">> \o Join(Tail(parts))

\* parts are the "/"-separated pieces of u.
IsSplitOf(parts, u) ==
    /\ Len(parts) >= 1
    /\ \A i \in 1..Len(parts) : ~HasSlash(parts[i])
    /\ Join(parts) = u

\* transform_people was called in run r.
TransformCalled(r) == attempts[r]["transform"] >= 1

\* C12 as stated: transform_people returns one message per record, in
\* order and with the batch id, and for every record whose url is not
\* empty the record id is the second-to-last piece of the url.
C12_RecordIdOfNonEmptyUrl ==
    \A r \in Runs :
        TransformCalled(r) =>
            /\ pc[r] = "Publishing"
            /\ Len(transformed_messages[r]) = Len(raw_people[r])
            /\ \A i \in 1..Len(raw_people[r]) :
                  LET m == transformed_messages[r][i]
                      u == GetUrl(raw_people[r][i])
                  IN  /\ m.batch_id = batch_id[r]
                      /\ m.payload = raw_people[r][i]
                      /\ u # <<>> =>
                            /\ Len(Split(u)) >= 2
                            /\ m.record_id = Split(u)[Len(Split(u)) - 1]

\* C12, amended: when transform_people returns, it returns one message
\* per record, in order and with the batch id, and for every record whose
\* url has a "/" the record id is the second-to-last piece of the url; it
\* raises IndexError, returning no list, exactly when some record's url is
\* not empty and has no "/".
C12_RecordIdOfUrlWithSlash ==
    \A r \in Runs :
        /\ \A i \in 1..Len(raw_people[r]) :
              IsSplitOf(Split(GetUrl(raw_people[r][i])),
                        GetUrl(raw_people[r][i]))
        /\ pc[r] = "Publishing" =>
              /\ Len(transformed_messages[r]) = Len(raw_people[r])
              /\ \A i \in 1..Len(raw_people[r]) :
                    LET m == transformed_messages[r][i]
                        u == GetUrl(raw_people[r][i])
                    IN  /\ m.batch_id = batch_id[r]
                        /\ m.payload = raw_people[r][i]
                        /\ HasSlash(u) =>
                              m.record_id = Split(u)[Len(Split(u)) - 1]
        /\ TransformCalled(r) =>
              (pc[r] # "Publishing" <=>
                  \E i \in 1..Len(raw_people[r]) :
                      /\ GetUrl(raw_people[r][i]) # <<>>
                      /\ ~HasSlash(GetUrl(raw_people[r][i])))
        /\ TransformCalled(r) /\ pc[r] # "Publishing" =>
              transformed_messages[r] = <<>>

\* Two records whose urls end in "1/" and in "2/" became the messages
\* with record ids "1" and "2", in that order.
C12_Witness ==
    \E r \in Runs :
        /\ pc[r] = "Publishing"
        /\ raw_people[r] = <<[url |-> <<"1", "/">>], [url |-> <<"2", "/">>]>>
        /\ transformed_messages[r][1].record_id = <<"1">>
        /\ transformed_messages[r][2].record_id = <<"2">>
        /\ transformed_messages[r][2].batch_id = batch_id[r]


\* ------------------------------------------------------------------ C13
\* An attempt of publish_to_kafka is inside its try block or finally.
InPublishCall(r) == pc[r] = "Publishing" /\ ppc[r] \in {"loop", "await", "close"}

\* C13 as stated: in every state of the publish loop, before, between and
\* after the per-message steps, published + failed equals the number of
\* input messages.
C13_CountersEqualTotal ==
    \A r \in Runs :
        InPublishCall(r) =>
            published[r] + failed[r] = Len(transformed_messages[r])

\* C13, amended: in every state of the publish loop published + failed
\* equals the number of messages the loop has finished with, which is at
\* most the number of input messages, and it equals that number once the
\* loop has ended and in the stats the call returns.
C13_CountersEqualProcessed ==
    \A r \in Runs :
        /\ InPublishCall(r) =>
              /\ published[r] + failed[r] = idx[r] - 1
              /\ published[r] + failed[r] <= Len(transformed_messages[r])
        /\ InPublishCall(r) /\ path[r] = "return" =>
              published[r] + failed[r] = Len(transformed_messages[r])
        /\ PublishReturned(r) =>
              publish_stats[r].published + publish_stats[r].failed
                 = publish_stats[r].total

\* Between the two per-message steps of a batch of two: one message
\* counted, the other one still to come.
C13_Witness ==
    \E r \in Runs :
        /\ pc[r] = "Publishing"
        /\ ppc[r] = "loop"
        /\ Len(transformed_messages[r]) = 2
        /\ published[r] + failed[r] = 1
        /\ failed[r] = 1


\* ------------------------------------------------------------------ C14
\* C14 as stated: the flow enters Failed, and calls the handler, only
\* from Idle, Extracting, Transforming or Publishing; once the run is in
\* Summarizing it does not move to Failed or FallbackInvoked.
C14_NoFailureOnceSummarizing ==
    [][\A r \in Runs :
          /\ (pc'[r] = "Failed" /\ pc[r] # "Failed") =>
                pc[r] \in {"Idle", "Extracting", "Transforming", "Publishing"}
          /\ pc[r] = "Summarizing" => pc'[r] \in {"Summarizing", "Done"}
          /\ (pc'[r] = "FallbackInvoked" /\ pc[r] # "FallbackInvoked") =>
                ~PublishReturned(r)]_vars

\* C14, amended: the flow enters Failed only from Extracting,
\* Transforming, Publishing or Summarizing, from Summarizing by an
\* exception of the summary emission; the handler is called only from
\* Failed and an error leaves the flow only after the handler was called;
\* Done and Raised are final.
C14_FailureOnlyInsideTry ==
    [][\A r \in Runs :
          /\ (pc'[r] = "Failed" /\ pc[r] # "Failed") =>
                /\ pc[r] \in {"Extracting", "Transforming", "Publishing",
                              "Summarizing"}
                /\ pc[r] = "Summarizing" => caught'[r] = "ArtifactError"
          /\ (pc'[r] = "FallbackInvoked" /\ pc[r] # "FallbackInvoked") =>
                pc[r] = "Failed"
          /\ (pc'[r] = "Raised" /\ pc[r] # "Raised") =>
                /\ pc[r] = "FallbackInvoked"
                /\ fallbackCount[r] = 1
          /\ pc[r] \in {"Done", "Raised"} => pc'[r] = pc[r]]_vars

\* The handler was called for an exception raised in Summarizing, after
\* publish_to_kafka had returned its stats.
C14_Witness ==
    \E r \in Runs :
        /\ pc[r] = "FallbackInvoked"
        /\ FailedStage(r) = "summary"
        /\ fallbackArgs[r].error = "ArtifactError"
        /\ publish_stats[r].published = 2


\* ------------------------------------------------------------------ C15
\* An attempt of extract_people has ended without returning.
AttemptAborted(r) ==
    /\ ~Extracted(r)
    /\ epc[r] = "idle"
    /\ attempts[r]["extract"] >= 1

C15_Inv ==
    \A r \in Runs :
        /\ ~Extracted(r) =>
              /\ raw_people[r] = <<>>
              /\ transformed_messages[r] = <<>>
        /\ Extracted(r) =>
              /\ requests[r] # <<>>
              /\ pages[requests[r][Len(requests[r])]].next = Null
              /\ raw_people[r] = PageResults(requests[r])

C15_Step ==
    \A r \in Runs :
        /\ (epc[r] = "loop" /\ AttemptAborted(r)') =>
              /\ Len(requests'[r]) <= Len(requests[r]) + 1
              /\ all_people'[r] = all_people[r]
              /\ \/ pc'[r] = "Extracting"
                 \/ /\ pc'[r] = "Failed"
                    /\ caught'[r] \in {"RequestException", "TimeoutError"}
        /\ requests'[r] # requests[r] =>
              \/ epc[r] = "loop"
              \/ epc'[r] = "loop" /\ requests'[r] = <<>>

\* C15: when the request of a page fails, the attempt of extract_people
\* ends at once: no request of a later page is made in that attempt, no
\* part of the record list is returned (what an attempt returns is the
\* whole chain's records), and the error goes to the caller, the task
\* runner, which retries or hands it to the flow.
C15_FailedRequestAbortsAttempt == []C15_Inv /\ [][C15_Step]_vars

\* The request of page 2 failed after page 1 had been fetched: the
\* attempt is over, nothing was returned and nothing further requested.
C15_Witness ==
    \E r \in Runs :
        /\ AttemptAborted(r)
        /\ pc[r] = "Extracting"
        /\ requests[r] = <<1, 2>>
        /\ all_people[r] = <<1>>
        /\ raw_people[r] = <<>>


\* ------------------------------------------------------------------ C16
\* The number of times record x occurs in the list.
Occurrences(list, x) == Cardinality({i \in 1..Len(list) : list[i] = x})

C16_Inv ==
    \A r \in Runs :
        /\ (pc[r] = "Extracting" /\ epc[r] = "loop") =>
              all_people[r] = PageResults(requests[r])
        /\ Extracted(r) =>
              /\ requests[r][1] = BaseUrl
              /\ raw_people[r] = PageResults(requests[r])
              /\ \A x \in Records :
                    Occurrences(raw_people[r], x)
                       = Occurrences(PageResults(ChainFrom(BaseUrl)), x)

C16_Step ==
    \A r \in Runs :
        attempts'[r]["extract"] # attempts[r]["extract"] =>
            /\ attempts'[r]["extract"] = attempts[r]["extract"] + 1
            /\ epc'[r] = "loop"
            /\ all_people'[r] = <<>>
            /\ url'[r] = BaseUrl
            /\ requests'[r] = <<>>

\* C16: extraction is retried from scratch: every attempt starts with an
\* empty accumulator at the base URL, and what a successful attempt
\* returns after failed ones is the records of the pages that attempt
\* fetched, none carried over from an earlier attempt and none twice.
C16_RetriesFromScratch == []C16_Inv /\ [][C16_Step]_vars

\* The third attempt succeeded, after two that failed, with the records
\* of both pages, once each.
C16_Witness ==
    \E r \in Runs :
        /\ Extracted(r)
        /\ attempts[r]["extract"] = 3
        /\ raw_people[r] = <<1, 2>>
        /\ all_people[r] = raw_people[r]


\* ------------------------------------------------------------------ C17
\* The body of extract_people, once called, keeps executing: a turn of
\* the loop that can be taken is taken, and so is the return.
ExtractFair ==
    \A r \in Runs : WF_vars(ExtractPage(r)) /\ WF_vars(ExtractReturn(r))

SpecLive == Spec /\ ExtractFair

\* The attempt has requested a page that has no "next".
LastPageRequested(r) ==
    \E i \in 1..Len(requests[r]) : pages[requests[r][i]].next = Null

C17_Inv ==
    \A r \in Runs :
        /\ (pc[r] = "Extracting" /\ epc[r] = "loop") =>
              /\ \A i \in 1..Len(requests[r]) :
                    pages[requests[r][i]].next = Null =>
                        i = Len(requests[r]) /\ url[r] = Null
              /\ Len(requests[r]) <= MaxPages
        /\ Extracted(r) =>
              /\ pages[requests[r][Len(requests[r])]].next = Null
              /\ \A i \in 1..(Len(requests[r]) - 1) :
                    /\ pages[requests[r][i]].next # Null
                    /\ requests[r][i + 1] = pages[requests[r][i]].next

C17_Step ==
    \A r \in Runs :
        (epc[r] = "loop" /\ LastPageRequested(r)) =>
            /\ requests'[r] = requests[r]
            /\ epc'[r] # epc[r] => Extracted(r)'

\* C17: the loop of extract_people ends at a page without "next": on
\* every chain of pages, which ends with such a page, an attempt in which
\* no request fails eventually returns; it stops at the first such page
\* and makes no request after it.
C17_ExtractionTerminates ==
    /\ []C17_Inv
    /\ [][C17_Step]_vars
    /\ \A r \in Runs :
          (epc[r] = "loop") ~> (Extracted(r) \/ AttemptAborted(r))

\* The attempt returned after requesting both pages of a chain whose
\* second page has no "next".
C17_Witness ==
    \E r \in Runs :
        /\ Extracted(r)
        /\ requests[r] = <<1, 2>>
        /\ pages[1].next = 2
        /\ pages[2].next = Null
        /\ url[r] = Null


\* ------------------------------------------------------------------ C18
C18_Inv ==
    \A r \in Runs :
        /\ flushCount[r] <= 1
        /\ closeCount[r] <= 1
        /\ flushCount[r] = 1 =>
              /\ idx[r] = Len(transformed_messages[r]) + 1
              /\ published[r] + failed[r] = Len(transformed_messages[r])
              /\ ppc[r] \in {"close", "idle"}
        /\ (ppc[r] = "close" /\ path[r] = "return") =>
              flushCount[r] = 1 /\ closeCount[r] = 0
        /\ PublishReturned(r) =>
              flushCount[r] = 1 /\ closeCount[r] = 1

C18_Step ==
    \A r \in Runs :
        attempts'[r]["publish"] = attempts[r]["publish"] =>
            /\ sent'[r] # sent[r] =>
                  /\ flushCount[r] = 0 /\ closeCount[r] = 0
                  /\ flushCount'[r] = 0 /\ closeCount'[r] = 0
            /\ flushCount'[r] # flushCount[r] =>
                  closeCount[r] = 0 /\ closeCount'[r] = 0
            /\ closeCount'[r] # closeCount[r] =>
                  flushCount'[r] = flushCount[r]

\* C18: in a call of publish_to_kafka that returns, flush() is called
\* exactly once, after the send and acknowledgment wait of the last
\* message and before the stats are returned; close() is called after
\* flush(); nothing is sent after flush() or close().
C18_FlushOnceThenClose == []C18_Inv /\ [][C18_Step]_vars

\* A call that sent two messages, flushed, closed and returned.
C18_Witness ==
    \E r \in Runs :
        /\ PublishReturned(r)
        /\ sent[r] = <<1, 1>>
        /\ flushCount[r] = 1
        /\ closeCount[r] = 1
        /\ path[r] = "return"


\* ------------------------------------------------------------------ C19
C19_Inv ==
    \A r \in Runs :
        /\ Cardinality(inflight[r]) <= 1
        /\ inflight[r] # {} <=> (pc[r] = "Publishing" /\ ppc[r] = "await")
        /\ \A f \in inflight[r] :
              /\ f.index = idx[r]
              /\ f.value = transformed_messages[r][f.index]
              /\ f.key = f.value.record_id
        /\ InPublishCall(r) =>
              \A i \in 1..Len(transformed_messages[r]) :
                  /\ i < idx[r] => sent[r][i] = 1
                  /\ i > idx[r] => sent[r][i] = 0

C19_Step ==
    \A r \in Runs :
        (attempts'[r]["publish"] = attempts[r]["publish"]
            /\ sent'[r] # sent[r]) =>
            /\ inflight[r] = {}
            /\ published[r] + failed[r] = idx[r] - 1
            /\ sent'[r] = [sent[r] EXCEPT ![idx[r]] = @ + 1]
            /\ inflight'[r] \subseteq {SendCall(r)}

\* C19: the loop handles one message at a time and in order: messages are
\* sent in the order of the input with their record_id as key, message
\* i + 1 is not sent until the acknowledgment wait of message i has ended
\* (acknowledged, or counted as failed), and at no time is more than one
\* message waiting for its acknowledgment.
C19_OneMessageAtATime == []C19_Inv /\ [][C19_Step]_vars

\* The second message of a batch waits for its acknowledgment, under its
\* own record id, after the first one was acknowledged.
C19_Witness ==
    \E r \in Runs :
        /\ ppc[r] = "await"
        /\ idx[r] = 2
        /\ published[r] = 1
        /\ inflight[r] = {[index |-> 2, key |-> 2,
                           value |-> transformed_messages[r][2]]}
        /\ transformed_messages[r][2].record_id = 2


\* ------------------------------------------------------------------ C20
\* Two runs of the flow at once.  Both read the same upstream resource,
\* a chain of MaxPages pages with one record each; failing attempts of
\* the tasks are explored up to MaxConcFailures failed attempts in all.
MaxConcFailures == 1

ConcServers ==
    {p \in Servers :
        \A u \in Urls : /\ p[u].results = <<u>>
                        /\ p[u].next = IF u < MaxPages THEN u + 1 ELSE Null}

\* The attempts of run r's tasks that have failed.
FailedAttempts(r) ==
    (attempts[r]["extract"]
        - (IF Extracted(r) \/ epc[r] = "loop" THEN 1 ELSE 0))
    + (attempts[r]["transform"] - entered[r]["publish"])
    + (attempts[r]["publish"]
        - (IF PublishReturned(r) \/ ppc[r] # "idle" THEN 1 ELSE 0))

RECURSIVE SumFailedAttempts(_)
SumFailedAttempts(S) ==
    IF S = {} THEN 0
    ELSE LET r == CHOOSE x \in S : TRUE
         IN  FailedAttempts(r) + SumFailedAttempts(S \ {r})

ConcBudget == SumFailedAttempts(Runs) <= MaxConcFailures

InitConc == InitRun(Runs) /\ pages \in ConcServers

\* The steps of the runs up to the flow's return or its except clause, an
\* attempt failing only within the budget.
NextConc ==
    \E r \in Runs :
        \/ FlowStart(r)
        \/ ExtractBegin(r)
        \/ ExtractPage(r)
        \/ ExtractFail(r) /\ ConcBudget'
        \/ ExtractReturn(r)
        \/ TransformRun(r)
        \/ TransformFail(r) /\ ConcBudget'
        \/ PublishBegin(r) /\ ConcBudget'
        \/ PublishSend(r)
        \/ PublishAck(r)
        \/ PublishFlush(r)
        \/ PublishClose(r) /\ ConcBudget'
        \/ Summarize(r)

SpecConc == InitConc /\ [][NextConc]_vars


\* What belongs to run r alone: its locals, its producer, its outcome.
Local(r) ==
    <<pc[r], batch_id[r], entered[r], attempts[r], epc[r], url[r],
      all_people[r], requests[r], raw_people[r], transformed_messages[r],
      ppc[r], idx[r], published[r], failed[r], pending[r], sent[r],
      flushCount[r], closeCount[r], path[r], acked[r], reacked[r],
      inflight[r], publish_stats[r], stageError[r], caught[r],
      fallbackCount[r], fallbackArgs[r], raised[r], result[r]>>

\* The messages of the broker's log that carry run r's batch id.
TopicOf(r) == {m \in topic : m.batch_id = batch_id[r]}

C20_Inv ==
    \A r \in Runs :
        /\ \A q \in Runs \ {r} :
              batch_id[r] = NoBatch \/ batch_id[r] # batch_id[q]
        /\ \A i \in 1..Len(transformed_messages[r]) :
              transformed_messages[r][i].batch_id = batch_id[r]
        /\ \A f \in inflight[r] : f.value.batch_id = batch_id[r]
        /\ TopicOf(r) = {transformed_messages[r][i] : i \in acked[r]}
        /\ (pc[r] = "Extracting" /\ epc[r] = "loop") =>
              all_people[r] = PageResults(requests[r])
        /\ Extracted(r) => raw_people[r] = PageResults(ChainFrom(BaseUrl))
        /\ closeCount[r] <= 1
        /\ PublishReturned(r) =>
              /\ publish_stats[r].total = Len(transformed_messages[r])
              /\ publish_stats[r].published + publish_stats[r].failed
                    = publish_stats[r].total
              /\ publish_stats[r].published <= Cardinality(TopicOf(r))

C20_Step ==
    \A r \in Runs :
        /\ batch_id[r] # NoBatch => batch_id'[r] = batch_id[r]
        /\ \A q \in Runs \ {r} :
              Local(r)' # Local(r) => Local(q)' = Local(q)

\* C20: two runs that interleave in any way are isolated: each run draws
\* its batch id once and keeps it through its stages and their retries,
\* has its own accumulator and its own producer, publishes only messages
\* with its own batch id, closes only its own producer, and returns
\* counts that depend on its own messages only.
C20_RunsAreIsolated == []C20_Inv /\ [][C20_Step]_vars

\* Both runs wait for an acknowledgment at the same time, run 1 for its
\* second message after a retried extraction, run 2 for its first.
C20_Witness ==
    /\ ppc[1] = "await" /\ ppc[2] = "await"
    /\ attempts[1]["extract"] = 2
    /\ idx[1] = 2 /\ published[1] = 1
    /\ idx[2] = 1
    /\ inflight[1] # inflight[2]
    /\ TopicOf(1) # {}

====
